---- MODULE Spec2Model ----
(***************************************************************************)
(* The Delivery Service of the notification system: main() starting one    *)
(* Handler goroutine per channel, the Handler.Start fetch / process /      *)
(* commit loop, processMessage (parse, simulate, save, publish), and the   *)
(* shutdown sequence cancel() -> Handler.Close()* -> wg.Wait().            *)
(*                                                                         *)
(* Kafka and MongoDB are modelled by their contract as seen by the calls   *)
(* the handler makes: a topic is an append-only log per channel, a         *)
(* consumer group has one committed offset per topic, the collection and   *)
(* the delivery-events topic are bags of records.                          *)
(***************************************************************************)
EXTENDS Integers, Sequences, FiniteSets, Bags, TLC

\* Bounds of the model.
MaxMsgs == 2        \* messages appended to all input topics together
MaxFaults == 1      \* transport errors returned by Kafka / MongoDB calls
MaxCrashes == 1     \* process crashes (each followed by a restart)
MaxPolicyDelayMs == 3   \* largest delay of the policies other than the service's three
MaxJitterMs == 2    \* time the scheduler adds to a sleep
MaxRequests == 2    \* POST /notifications requests the gateway receives
MaxTime == 2        \* clock ticks that pass while the gateway runs
MaxForeign == 3     \* payloads producers other than the gateway put on the notifications topic
MaxDigits == 16     \* digits at the head of a recipient typed into the dashboard
MaxSeparators == 6  \* separator characters that follow them
MaxEvents == 3      \* messages on the delivery-events topic the analytics service reads

\* allHandlers := []*handlers.Handler{emailHandler, smsHandler, pushHandler}
allHandlers == <<"Email", "SMS", "Push">>

Channels == {allHandlers[k] : k \in 1..Len(allHandlers)}

\* The type string carried by the notifications of a handler's topic.
TypeOf(c) == CASE c = "Email" -> "EMAIL" [] c = "SMS" -> "SMS" [] c = "Push" -> "PUSH"

\* config.MinDelayMs and config.MaxDelayMs of the simulator injected into
\* each handler.
MinDelayMsOf(c) == CASE c = "Email" -> 50 [] c = "SMS" -> 30 [] c = "Push" -> 20
MaxDelayMsOf(c) == CASE c = "Email" -> 200 [] c = "SMS" -> 100 [] c = "Push" -> 80

\* config.ErrorMessage of the simulator injected into each handler.
ErrorMessageOf(c) ==
  CASE c = "Email" -> "SMTP connection timeout"
    [] c = "SMS" -> "carrier gateway unreachable"
    [] c = "Push" -> "device token invalid"

\* The consumer group of a topic has no committed offset yet.
NoOffset == 0

\* No message fetched yet by this run of the handler.
NoMessage == 0

VARIABLES
  mainPc,        \* where main() is
  hIdx,          \* index in allHandlers of the handler main is closing
  ctxDone,       \* ctx of main has been cancelled
  mongo,         \* the shared mongo.Client: "none", "open", "closed"
  shutdownChan,  \* per handler: "open" or "closed"
  consumerOpen,  \* per handler: the kafka.Reader is not closed
  producerOpen,  \* per handler: the kafka.Writer is not closed
  pc,            \* per handler: where its Start goroutine is
  msg,           \* per handler: offset of the message FetchMessage returned last
  result,        \* per handler: the deliveryResult built by processMessage
  pos,           \* per handler: next offset its reader will return
  log,           \* per channel: the input topic, a sequence of payloads
  committed,     \* per channel: committed offset of the consumer group
  store,         \* the delivery_results collection, a bag of DeliveryResult
  events,        \* the delivery-events topic, a bag of kafka.Message
  processed,     \* per channel: offsets processMessage has returned for
  atSignal,      \* per handler: the message in hand was fetched before ctx was cancelled
  inFlight,      \* per handler: offsets fetched whose iteration has not ended
  faults,        \* transport errors so far
  crashes,       \* process crashes so far
  down,          \* the handlers whose broker and store calls all fail
  held,          \* per handler: end of the messages its reader had received when it was closed
  simPc,         \* where one call of the simulator and its caller is
  config,        \* the DeliveryConfig of that call
  delay,         \* simulateDelivery's delay, in ms
  deliveryTime,  \* simulateDelivery's deliveryTime, in ms
  sample,        \* the value rand.Float32() returned, in 1/SampleSteps
  simReturn,     \* what simulateDelivery returned: status and error
  deliveryResult, \* the models.DeliveryResult processMessage built from it
  now,           \* the gateway's clock, in ticks
  req,           \* per POST /notifications request: where createNotification is
  redis,         \* the Redis cache: the entries under "notification:"+id
  notifications, \* the notifications topic, a sequence of payloads
  foreign,       \* payloads of other producers so far
  procPc,        \* where the processor's consumer is
  procPos,       \* offset of the message eachMessage is called with (next)
  procResult,    \* how eachMessage ended: "resolved" or "thrown"
  procCommitted, \* committed offset of notification-processor-group
  routed,        \* per type topic: the messages the processor sent
  recipient,     \* the dashboard form's recipient, a sequence of characters
  type,          \* the dashboard form's type
  deliveryEvents, \* the delivery-events topic as the analytics consumer reads it
  anPc,          \* where the analytics consumer is
  anPos,         \* offset of the event eachMessage is called with (next)
  anCommitted,   \* committed offset of analytics-service-group
  esIndex        \* the documents of the notification-analytics index

vars == <<mainPc, hIdx, ctxDone, mongo, shutdownChan, consumerOpen, producerOpen,
          pc, msg, result, pos, log, committed, store, events, processed,
          atSignal, inFlight, faults, crashes, down, held,
          simPc, config, delay, deliveryTime, sample, simReturn, deliveryResult,
          now, req, redis, notifications, foreign, procPc, procPos, procResult,
          procCommitted, routed,
          recipient, type, deliveryEvents, anPc, anPos, anCommitted, esIndex>>

dashboardVars == <<recipient, type>>
analyticsVars == <<deliveryEvents, anPc, anPos, anCommitted, esIndex>>
frontVars == <<dashboardVars, analyticsVars>>
ingestVars == <<now, req, redis, notifications, foreign, procPc, procPos, procResult,
                procCommitted, routed>>
gatewayVars == <<now, req, redis>>
processorVars == <<procPc, procPos, procResult, procCommitted, routed>>
simVars == <<simPc, config, delay, deliveryTime, sample, simReturn, deliveryResult>>
serviceVars == <<mainPc, hIdx, ctxDone, mongo, shutdownChan, consumerOpen, producerOpen,
                 pc, msg, result, pos, log, committed, store, events, processed,
                 atSignal, inFlight, faults, crashes, down, held>>
mainVars == <<mainPc, hIdx, ctxDone, mongo, shutdownChan, consumerOpen, producerOpen>>
brokerVars == <<log, committed, store, events>>

\* The payload at offset i of channel c's topic when it deserializes: the
\* producer assigns a unique id.
Notification(c, i) ==
  [valid |-> TRUE, id |-> <<c, i>>, type |-> TypeOf(c), recipient |-> <<"to", c, i>>]

\* A payload json.Unmarshal / proto.Unmarshal rejects.
Malformed(c, i) ==
  [valid |-> FALSE, id |-> <<c, i>>, type |-> TypeOf(c), recipient |-> <<"to", c, i>>]

NoResult ==
  [notification_id |-> <<"", 0>>, type |-> "", recipient |-> <<>>, status |-> "",
   delivery_time_ms |-> 0, error_message |-> ""]

TotalAppended == Len(log["Email"]) + Len(log["SMS"]) + Len(log["Push"])

\* The service before main() runs.
ServiceInit ==
  /\ mainPc = "start"
  /\ hIdx = 1
  /\ ctxDone = FALSE
  /\ mongo = "none"
  /\ shutdownChan = [c \in Channels |-> "open"]
  /\ consumerOpen = [c \in Channels |-> FALSE]
  /\ producerOpen = [c \in Channels |-> FALSE]
  /\ pc = [c \in Channels |-> "notStarted"]
  /\ msg = [c \in Channels |-> NoMessage]
  /\ result = [c \in Channels |-> NoResult]
  /\ pos = [c \in Channels |-> 1]
  /\ log = [c \in Channels |-> <<>>]
  /\ committed = [c \in Channels |-> NoOffset]
  /\ store = EmptyBag
  /\ events = EmptyBag
  /\ processed = [c \in Channels |-> {}]
  /\ atSignal = [c \in Channels |-> FALSE]
  /\ inFlight = [c \in Channels |-> {}]
  /\ faults = 0
  /\ crashes = 0
  /\ down = {}
  /\ held = [c \in Channels |-> 0]

\* DeliveryConfig values: FailureRate is in units of 1/SampleSteps.
NoConfig == [Name |-> "", MinDelayMs |-> 0, MaxDelayMs |-> 0, FailureRate |-> 0,
             ErrorMessage |-> ""]

NoReturn == [status |-> "", error |-> ""]

\* No call of the simulator is being followed.
SimIdle ==
  /\ simPc = "idle"
  /\ config = NoConfig
  /\ delay = 0
  /\ deliveryTime = 0
  /\ sample = 0
  /\ simReturn = NoReturn
  /\ deliveryResult = NoResult

\* The POST /notifications requests of a run.
Requests == 1..MaxRequests

\* No response written yet.
NoStatus == 0

\* A request that has not arrived: no body, no id, no call made.
NoRequest == [pc |-> "idle", wellformed |-> FALSE, Type |-> "", id |-> 0,
              cacheErr |-> "", writeErr |-> "", status |-> NoStatus]

\* The topics the processor sends to.
TypeTopics == {"email-notifications", "sms-notifications", "push-notifications"}

\* The gateway and the processor are up, nothing has been posted.
\* The dashboard's form as useState('') leaves it, and the analytics service
\* before its consumer runs.
FrontIdle ==
  /\ recipient = <<>>
  /\ type = ""
  /\ deliveryEvents = <<>>
  /\ anPc = "fetch"
  /\ anPos = 1
  /\ anCommitted = NoOffset
  /\ esIndex = {}

IngestIdle ==
  /\ now = 0
  /\ req = [r \in Requests |-> NoRequest]
  /\ redis = {}
  /\ notifications = <<>>
  /\ foreign = 0
  /\ procPc = "fetch"
  /\ procPos = 1
  /\ procResult = ""
  /\ procCommitted = NoOffset
  /\ routed = [t \in TypeTopics |-> <<>>]

Init == ServiceInit /\ SimIdle /\ IngestIdle /\ FrontIdle

(***************************************************************************)
(* Library calls as the handler sees them.                                 *)
(***************************************************************************)

\* A reader that ignores the group's committed offset.
AsAlwaysLastOffset(topic, groupOffset) == Len(topic) + 1

\* kafka.ReaderConfig{GroupID: groupID, StartOffset: kafka.LastOffset}: a
\* reader of a group resumes at the group's committed offset; StartOffset is
\* used when the group has none, and LastOffset is the end of the topic.
StartOffsetOf(topic, groupOffset) ==
  IF groupOffset = NoOffset THEN Len(topic) + 1 ELSE groupOffset

\* The errors a call taking ctx on a reader, writer or client can return at
\* this moment: ctx.Err() once ctx is cancelled, io.ErrClosedPipe / io.EOF
\* once the reader or writer is closed, or a transport error.
CallErrors(open) ==
  (IF ctxDone THEN {"canceled"} ELSE {})
    \cup (IF open THEN {} ELSE {"closed"})
    \cup (IF faults < MaxFaults THEN {"fault"} ELSE {})

CallOutcomes(open) == {"nil"} \cup CallErrors(open)

CountFault(e) == IF e = "fault" THEN faults + 1 ELSE faults

\* Handlers sharing one reader and writer: the failure of one is the failure
\* of all.
AsSharedConnection(c) == down # {}

\* NewHandler gives every handler its own kafka.Reader and kafka.Writer: a
\* handler's calls fail persistently when its own connections are down.
Affected(c) == c \in down

\* The errors and the outcomes of a call of handler c.
ErrorsOf(c, open) == IF Affected(c) THEN {"down"} ELSE CallErrors(open)
OutcomesOf(c, open) == IF Affected(c) THEN {"down"} ELSE CallOutcomes(open)

\* A save that replaces the record of the same notification_id (an upsert, or
\* a unique index with replace).
AsUpsert(coll, r) ==
  [x \in {y \in BagToSet(coll) : y.notification_id # r.notification_id} |-> coll[x]]
    (+) SetToBag({r})

\* Client.SaveDeliveryResult: collection.InsertOne(ctx, result).
SaveDeliveryResult(coll, r) == coll (+) SetToBag({r})

\* pb.NotificationType_value[notification.Type]: the enum number of a name,
\* and the zero value of a missing key.
NotificationType_value(t) ==
  CASE t = "EMAIL" -> 0 [] t = "SMS" -> 1 [] t = "PUSH" -> 2 [] OTHER -> 0

\* pb.NotificationType_name[n]: the name of an enum number.
NotificationType_name(n) ==
  CASE n = 0 -> "EMAIL" [] n = 1 -> "SMS" [] n = 2 -> "PUSH" [] OTHER -> ""

\* The completion event serialized from a DeliveryResult: json.Marshal of
\* the struct, or the pb.DeliveryEvent whose Type goes through the enum; its
\* DeliveryTimeMs is narrowed to int32, which keeps every delay a policy of
\* the model can give (below 2^31 ms).
DeliveryEvent(r) ==
  [r EXCEPT !.type = NotificationType_name(NotificationType_value(r.type))]

\* A completion event keyed by the notification's type.
AsKeyedByType(topic, r) ==
  topic (+) SetToBag({[key |-> <<r.type, 0>>, value |-> DeliveryEvent(r)]})

\* producer.WriteMessages(ctx, kafka.Message{Key: notification.ID, Value: eventBytes})
WriteMessages(topic, r) ==
  topic (+) SetToBag({[key |-> r.notification_id, value |-> DeliveryEvent(r)]})

\* A commit of the message's own offset instead of the one after it.
AsCommitOwnOffset(m) == m

\* consumer.CommitMessages(ctx, message): the group's offset becomes the
\* offset after the message.
CommitMessages(m) == m + 1

(***************************************************************************)
(* Handler.processMessage and Handler.Start                                *)
(***************************************************************************)

\* Start with `continue` on a processing error: the commit is skipped.
AsSkipCommitOnError(e) == IF e = "nil" THEN "commit" ELSE "fetch"

\* Start returning on a deserialization error: the worker stops.
AsStopOnParseError(e) == IF e = "parse" THEN "stopped" ELSE "commit"

\* Start, after processMessage returned e: the error is logged and the loop
\* goes on to CommitMessages in every case.
ProcessMessageReturn(e) == "commit"

\* processMessage going on after a failed Unmarshal.
AsIgnoreParseError(valid) == "save"

\* processMessage after Unmarshal: an error returns at once.
AfterUnmarshal(valid) == IF valid THEN "save" ELSE ProcessMessageReturn("parse")

\* processMessage returning the simulator's error as a processing error.
AsReturnSimulatorError(next, err) == IF err # "" THEN ProcessMessageReturn(err) ELSE next

\* processMessage after h.simulator(notification) returned (status, _, err):
\* err only sets errorMsg; the function goes on to build and save the result.
AfterSimulator(next, err) == next

\* Start going on to the next message when the save failed, without a
\* commit attempt for the one in hand.
AsNextMessageAfterFailedSave(e) == IF e = "nil" THEN "publish" ELSE "fetch"

\* processMessage logging a failed save and publishing all the same.
AsPublishAfterFailedSave(e) == "publish"

\* processMessage after SaveDeliveryResult returned e.
AfterSave(e) == IF e = "nil" THEN "publish" ELSE ProcessMessageReturn(e)

\* Start fetching the next message once the outcome is published, leaving
\* the commit for later.
AsFetchBeforeCommit(e) == "fetch"

\* processMessage starting the attempt again from the save when the publish
\* failed.
AsRetryFromSave(e) == IF e = "nil" THEN ProcessMessageReturn(e) ELSE "save"

\* processMessage after WriteMessages returned e.
AfterPublish(e) == ProcessMessageReturn(e)

\* A DeliveryResult built without the errorMsg taken from err.Error().
AsNoErrorMessage(n, status, deliveryTimeMs, errorMessage) ==
  [notification_id |-> n.id, type |-> n.type, recipient |-> n.recipient, status |-> status,
   delivery_time_ms |-> deliveryTimeMs, error_message |-> ""]

\* A DeliveryResult whose Recipient is left at its zero value.
AsNoRecipient(n, status, deliveryTimeMs, errorMessage) ==
  [notification_id |-> n.id, type |-> n.type, recipient |-> <<>>, status |-> status,
   delivery_time_ms |-> deliveryTimeMs, error_message |-> errorMessage]

\* models.DeliveryResult built from the notification and the simulator's
\* (status, deliveryTimeMs, err): errorMessage is err.Error() when err != nil.
DeliveryResult(n, status, deliveryTimeMs, errorMessage) ==
  [notification_id |-> n.id, type |-> n.type, recipient |-> n.recipient, status |-> status,
   delivery_time_ms |-> deliveryTimeMs, error_message |-> errorMessage]

\* simulateDelivery's possible returns for a handler: ("FAILED", deliveryTime,
\* error) or ("SENT", deliveryTime, nil), the failed one taken at the policy's
\* shortest delay and the sent one at its longest.
SimulatorReturns(c) ==
  {[status |-> "FAILED", deliveryTimeMs |-> MinDelayMsOf(c), error |-> ErrorMessageOf(c)],
   [status |-> "SENT", deliveryTimeMs |-> MaxDelayMsOf(c) - 1, error |-> ""]}

\* processMessage has returned for message m once the worker is no longer at
\* its save or publish.
Returned(c, m, next) ==
  IF next \in {"save", "publish"} THEN processed
                                 ELSE [processed EXCEPT ![c] = @ \cup {m}]

\* A loop without the shutdownChan case.
AsNeverSeesShutdown(c) == "fetch"

\* Handler c is between a fetch that returned a message and the end of that
\* message's commit.
InIteration(c) == pc[c] \in {"save", "publish", "commit"}

\* The top of Start's loop: select { case <-h.shutdownChan: return nil;
\* default: FetchMessage ... }. The select does not block, so it is taken
\* together with the step that leads to it.
LoopTop(c) == IF shutdownChan[c] = "closed" THEN "stopped" ELSE "fetch"

\* Start returning the error of a failed fetch: the worker stops.
AsReturnOnFetchError(c) == "stopped"

\* Start after FetchMessage returned an error: the error is logged (unless
\* ctx is cancelled) and `continue` goes back to the top of the loop.
AfterFetchError(c) == LoopTop(c)

\* The end of the messages handler c's reader can return: those of the topic
\* while it is open, those it had received before it was closed after that.
Received(c) == IF shutdownChan[c] = "closed" THEN held[c] ELSE Len(log[c])

\* message, err := h.consumer.FetchMessage(ctx) returning a message, and
\* processMessage up to the built deliveryResult (Unmarshal, simulator):
\* these read nothing another goroutine writes, so they are one step with
\* the fetch.
FetchOk(c) ==
  /\ pc[c] = "fetch"
  /\ ~Affected(c)
  /\ pos[c] <= Received(c)
  /\ msg' = [msg EXCEPT ![c] = pos[c]]
  /\ pos' = [pos EXCEPT ![c] = pos[c] + 1]
  /\ inFlight' = [inFlight EXCEPT ![c] = @ \cup {pos[c]}]
  /\ LET n == log[c][pos[c]] IN
       IF n.valid
         THEN \E s \in SimulatorReturns(c) :
                LET next == AfterSimulator(AfterUnmarshal(n.valid), s.error) IN
                  /\ result' = [result EXCEPT ![c] = DeliveryResult(n, s.status, s.deliveryTimeMs, s.error)]
                  /\ pc' = [pc EXCEPT ![c] = next]
                  /\ processed' = Returned(c, pos[c], next)
         ELSE /\ result' = result
              /\ pc' = [pc EXCEPT ![c] = AfterUnmarshal(n.valid)]
              /\ processed' = Returned(c, pos[c], AfterUnmarshal(n.valid))
  /\ UNCHANGED <<frontVars, ingestVars, simVars, held, down, mainVars, brokerVars, atSignal, faults, crashes>>

\* FetchMessage returning an error: continue.
FetchErr(c) ==
  /\ pc[c] = "fetch"
  /\ \E e \in ErrorsOf(c, consumerOpen[c]) : faults' = CountFault(e)
  /\ pc' = [pc EXCEPT ![c] = AfterFetchError(c)]
  /\ UNCHANGED <<frontVars, ingestVars, simVars, held, down, mainVars, brokerVars, atSignal, inFlight, msg, result, pos, processed, crashes>>

\* h.mongoClient.SaveDeliveryResult(ctx, deliveryResult)
Save(c) ==
  /\ pc[c] = "save"
  /\ \E e \in OutcomesOf(c, mongo = "open") :
       /\ faults' = CountFault(e)
       /\ store' = IF e = "nil" THEN SaveDeliveryResult(store, result[c]) ELSE store
       /\ pc' = [pc EXCEPT ![c] = AfterSave(e)]
       /\ processed' = Returned(c, msg[c], AfterSave(e))
  /\ UNCHANGED <<frontVars, ingestVars, simVars, held, down, mainVars, log, committed, events, atSignal, inFlight, msg, result, pos, crashes>>

\* h.producer.WriteMessages(ctx, ...)
Publish(c) ==
  /\ pc[c] = "publish"
  /\ \E e \in OutcomesOf(c, producerOpen[c]) :
       /\ faults' = CountFault(e)
       /\ events' = IF e = "nil" THEN WriteMessages(events, result[c]) ELSE events
       /\ pc' = [pc EXCEPT ![c] = AfterPublish(e)]
       /\ processed' = Returned(c, msg[c], AfterPublish(e))
  /\ UNCHANGED <<frontVars, ingestVars, simVars, held, down, mainVars, log, committed, store, atSignal, inFlight, msg, result, pos, crashes>>

\* h.consumer.CommitMessages(ctx, message); the iteration ends and the loop
\* goes round.
Commit(c) ==
  /\ pc[c] = "commit"
  /\ \E e \in OutcomesOf(c, consumerOpen[c]) :
       /\ faults' = CountFault(e)
       /\ committed' = IF e = "nil" THEN [committed EXCEPT ![c] = CommitMessages(msg[c])]
                                    ELSE committed
  /\ result' = [result EXCEPT ![c] = NoResult]
  /\ atSignal' = [atSignal EXCEPT ![c] = FALSE]
  /\ inFlight' = [inFlight EXCEPT ![c] = @ \ {msg[c]}]
  /\ pc' = [pc EXCEPT ![c] = LoopTop(c)]
  /\ UNCHANGED <<frontVars, ingestVars, simVars, held, down, mainVars, log, store, events, msg, pos, processed, crashes>>

WorkerStep(c) ==
  FetchOk(c) \/ FetchErr(c) \/ Save(c) \/ Publish(c) \/ Commit(c)

(***************************************************************************)
(* simulateDelivery, and the DeliveryResult processMessage builds from it   *)
(***************************************************************************)

\* rand.Float32() returns a value of [0,1); the model draws it on a grid of
\* SampleSteps values k/SampleSteps, k = 0 .. SampleSteps-1, and holds a
\* FailureRate as a multiple of 1/SampleSteps.
SampleSteps == 10

Float32 == 0..(SampleSteps - 1)

\* emailConfig, smsConfig, pushConfig (FailureRate 0.10 = 1/SampleSteps).
emailConfig == [Name |-> "Email", MinDelayMs |-> MinDelayMsOf("Email"),
                MaxDelayMs |-> MaxDelayMsOf("Email"), FailureRate |-> 1,
                ErrorMessage |-> ErrorMessageOf("Email")]
smsConfig == [Name |-> "SMS", MinDelayMs |-> MinDelayMsOf("SMS"),
              MaxDelayMs |-> MaxDelayMsOf("SMS"), FailureRate |-> 1,
              ErrorMessage |-> ErrorMessageOf("SMS")]
pushConfig == [Name |-> "Push", MinDelayMs |-> MinDelayMsOf("Push"),
               MaxDelayMs |-> MaxDelayMsOf("Push"), FailureRate |-> 1,
               ErrorMessage |-> ErrorMessageOf("Push")]

\* The DeliveryConfig values simulateDelivery is followed with: the three of
\* the service, and every policy with 0 <= MinDelayMs <= MaxDelayMs up to
\* MaxPolicyDelayMs and a FailureRate of 0, 1/SampleSteps, 1/2 or 1.
Configs ==
  {emailConfig, smsConfig, pushConfig}
    \cup {cfg \in [Name : {"Email"}, MinDelayMs : 0..MaxPolicyDelayMs,
                   MaxDelayMs : 0..MaxPolicyDelayMs,
                   FailureRate : {0, 1, SampleSteps \div 2, SampleSteps},
                   ErrorMessage : {"SMTP timeout"}] : cfg.MinDelayMs <= cfg.MaxDelayMs}

\* rand.Intn(n): a value of [0,n); it panics if n <= 0.
Intn(n) == 0..(n - 1)
IntnPanics(n) == n <= 0

\* delayRange := config.MaxDelayMs - config.MinDelayMs
delayRange(cfg) == cfg.MaxDelayMs - cfg.MinDelayMs

\* The values config.MinDelayMs + rand.Intn(delayRange) can take.
Draws(cfg) == {cfg.MinDelayMs + k : k \in Intn(delayRange(cfg))}

\* time.Since(startTime).Milliseconds() after time.Sleep(delay): the sleep
\* lasts at least the delay, and as much longer as the scheduler makes it.
Elapsed(d, jitter) == d + jitter

\* A comparison that fails at sample = rate too.
AsFailsAtOrBelowRate(s, rate) == s <= rate

\* rand.Float32() < config.FailureRate
Fails(s, rate) == s < rate

\* fmt.Errorf(config.ErrorMessage).Error(): no ErrorMessage holds a
\* formatting verb, so the text is the message.
Errorf(format) == format

\* A call of simulateDelivery(notification, config) begins.
SimInit ==
  /\ ServiceInit
  /\ IngestIdle
  /\ FrontIdle
  /\ simPc = "start"
  /\ config \in Configs
  /\ delay = 0
  /\ deliveryTime = 0
  /\ sample = 0
  /\ simReturn = NoReturn
  /\ deliveryResult = NoResult

\* delay := time.Duration(config.MinDelayMs+rand.Intn(delayRange)) * time.Millisecond
SimDraw ==
  /\ simPc = "start"
  /\ ~IntnPanics(delayRange(config))
  /\ \E d \in Draws(config) : delay' = d
  /\ simPc' = "sleep"
  /\ UNCHANGED <<frontVars, ingestVars, serviceVars, config, deliveryTime, sample, simReturn, deliveryResult>>

\* rand.Intn panics ("invalid argument to Intn"): nothing recovers it, the
\* process dies.
SimPanic ==
  /\ simPc = "start"
  /\ IntnPanics(delayRange(config))
  /\ simPc' = "panic"
  /\ UNCHANGED <<frontVars, ingestVars, serviceVars, config, delay, deliveryTime, sample, simReturn, deliveryResult>>

\* time.Sleep(delay); deliveryTime := time.Since(startTime).Milliseconds()
SimSleep ==
  /\ simPc = "sleep"
  /\ \E jitter \in 0..MaxJitterMs : deliveryTime' = Elapsed(delay, jitter)
  /\ simPc' = "decide"
  /\ UNCHANGED <<frontVars, ingestVars, serviceVars, config, delay, sample, simReturn, deliveryResult>>

\* if rand.Float32() < config.FailureRate { return "FAILED", deliveryTime, err }
\* return "SENT", deliveryTime, nil
SimDecide ==
  /\ simPc = "decide"
  /\ \E s \in Float32 :
       /\ sample' = s
       /\ simReturn' = IF Fails(s, config.FailureRate)
                         THEN [status |-> "FAILED", error |-> Errorf(config.ErrorMessage)]
                         ELSE [status |-> "SENT", error |-> ""]
  /\ simPc' = "returned"
  /\ UNCHANGED <<frontVars, ingestVars, serviceVars, config, delay, deliveryTime, deliveryResult>>

\* processMessage: deliveryResult := models.DeliveryResult{..., Status: status,
\* DeliveryTimeMs: deliveryTime, ErrorMessage: errorMsg}
SimBuild ==
  /\ simPc = "returned"
  /\ deliveryResult' = DeliveryResult(Notification(config.Name, 1), simReturn.status,
                                       deliveryTime, simReturn.error)
  /\ simPc' = "built"
  /\ UNCHANGED <<frontVars, ingestVars, serviceVars, config, delay, deliveryTime, sample, simReturn>>

SimNext == SimDraw \/ SimPanic \/ SimSleep \/ SimDecide \/ SimBuild

\* One call of the simulator by processMessage, for every policy.
SimSpec == SimInit /\ [][SimNext]_vars

(***************************************************************************)
(* API Gateway: createNotification, generateID                             *)
(***************************************************************************)

\* The clock ticks TicksPerSecond times a second.
TicksPerSecond == 2

\* An id taken from a clock that is read to the tick.
AsTickId(t) == t

\* generateID: time.Now().Format("20060102150405"), the time of day to the
\* second; the id stands for that second.
generateID(t) == t \div TicksPerSecond

\* The Type values of the request bodies: the three types and one other.
RequestTypes == {"EMAIL", "SMS", "PUSH", "FAX"}

\* The request bodies: JSON that binds to NotificationRequest (no field is
\* required or validated), or JSON that does not parse.
Bodies ==
  {[wellformed |-> TRUE, Type |-> t] : t \in RequestTypes}
    \cup {[wellformed |-> FALSE, Type |-> ""]}

\* The outcomes of a call to Redis or Kafka.
IngestOutcomes == {"nil", "err"}

\* createNotification answering 500 when the Redis write failed.
AsFailOnRedisError(e) == IF e = "nil" THEN "write" ELSE "respond"

\* createNotification after redisClient.Set: its result is not looked at.
AfterRedisSet(e) == "write"

\* createNotification answering 201 whatever the Kafka write returned.
AsAlwaysCreated(e) == 201

\* createNotification after kafkaWriter.WriteMessages returned e: 500 on an
\* error, 201 otherwise; a request that never got to the write had a failure
\* before it.
StatusAfterWrite(e) == IF e = "nil" THEN 201 ELSE 500

\* The clock advances (it is read only when a request arrives, so it is
\* followed only while one is still to come).
Tick ==
  /\ now < MaxTime
  /\ \E r \in Requests : req[r].pc = "idle"
  /\ now' = now + 1
  /\ UNCHANGED <<frontVars, serviceVars, simVars, req, redis, notifications, foreign, processorVars>>

\* c.ShouldBindJSON(&req); notification := NotificationResponse{ID: generateID(), ...}
Bind(r) ==
  /\ req[r].pc = "idle"
  /\ \A q \in 1..(r - 1) : req[q].pc # "idle"   \* requests are numbered as they arrive
  /\ \E b \in Bodies :
       req' = [req EXCEPT ![r] =
                 IF b.wellformed
                   THEN [@ EXCEPT !.pc = "cache", !.wellformed = TRUE, !.Type = b.Type,
                                  !.id = generateID(now)]
                   ELSE [@ EXCEPT !.pc = "done", !.status = 400]]
  /\ UNCHANGED <<frontVars, serviceVars, simVars, now, redis, notifications, foreign, processorVars>>

\* redisClient.Set(ctx, "notification:"+notification.ID, notificationJSON, time.Hour)
Cache(r) ==
  /\ req[r].pc = "cache"
  /\ \E e \in IngestOutcomes :
       /\ req' = [req EXCEPT ![r].pc = AfterRedisSet(e), ![r].cacheErr = e]
       /\ redis' = IF e = "nil"
                     THEN {x \in redis : x.key # req[r].id}
                            \cup {[key |-> req[r].id, Type |-> req[r].Type, req |-> r]}
                     ELSE redis
  /\ UNCHANGED <<frontVars, serviceVars, simVars, now, notifications, foreign, processorVars>>

\* pbNotification := &pb.Notification{...}; proto.Marshal;
\* kafkaWriter.WriteMessages(ctx, kafka.Message{Key: notification.ID, Value: pbData})
Write(r) ==
  /\ req[r].pc = "write"
  /\ \E e \in IngestOutcomes :
       /\ req' = [req EXCEPT ![r].pc = "respond", ![r].writeErr = e]
       /\ notifications' =
            IF e = "nil"
              THEN Append(notifications,
                          [valid |-> TRUE, key |-> req[r].id, id |-> req[r].id,
                           type |-> NotificationType_value(req[r].Type), req |-> r])
              ELSE notifications
  /\ UNCHANGED <<frontVars, serviceVars, simVars, now, redis, foreign, processorVars>>

\* c.JSON(http.StatusInternalServerError, ...) or c.JSON(http.StatusCreated, notification)
Respond(r) ==
  /\ req[r].pc = "respond"
  /\ req' = [req EXCEPT ![r].pc = "done", ![r].status = StatusAfterWrite(req[r].writeErr)]
  /\ UNCHANGED <<frontVars, serviceVars, simVars, now, redis, notifications, foreign, processorVars>>

\* The type numbers of the payloads on the topic: the enum's three and one
\* that is none of them.
TypeNumbers == {0, 1, 2, 7}

\* A producer puts a payload on the notifications topic: bytes that do not
\* decode, or a notification of any type number, with an id of its own.
Inject ==
  /\ foreign < MaxForeign
  /\ foreign' = foreign + 1
  /\ \E m \in {[valid |-> FALSE, key |-> 0, id |-> 0, type |-> 0, req |-> 0]}
               \cup {[valid |-> TRUE, key |-> foreign + 1, id |-> foreign + 1, type |-> t,
                      req |-> 0] : t \in TypeNumbers} :
       notifications' = Append(notifications, m)
  /\ UNCHANGED <<frontVars, serviceVars, simVars, now, req, redis, processorVars>>

(***************************************************************************)
(* Notification Processor: eachMessage, routeNotification                  *)
(***************************************************************************)

\* const typeNames = ['EMAIL', 'SMS', 'PUSH']
typeNames == <<"EMAIL", "SMS", "PUSH">>

\* typeNames[notification.type] || 'UNKNOWN'
typeString(t) == IF t \in 0..(Len(typeNames) - 1) THEN typeNames[t + 1] ELSE "UNKNOWN"

\* routeNotification returning without a target topic.
NoTopic == "none"

\* A switch whose first case lacks its break.
AsFallThrough(ts) ==
  CASE ts = "EMAIL" -> "sms-notifications"
    [] ts = "SMS" -> "sms-notifications"
    [] ts = "PUSH" -> "push-notifications"
    [] OTHER -> NoTopic

\* routeNotification's switch (typeString).
targetTopic(ts) ==
  CASE ts = "EMAIL" -> "email-notifications"
    [] ts = "SMS" -> "sms-notifications"
    [] ts = "PUSH" -> "push-notifications"
    [] OTHER -> NoTopic

\* An eachMessage without the try / catch around the decoding.
AsRethrow(e) == "thrown"

\* eachMessage when Notification.decode or routeNotification threw: the
\* catch logs the error and the handler resolves.
OnParseError(e) == "resolved"

\* routeNotification after producer.send: a rejection is caught and logged,
\* the function returns normally either way.
OnSendResult(e) == "resolved"

\* The message eachMessage is called with.
procMsg == notifications[procPos]

\* eachMessage up to the call of producer.send: decode, typeString, switch.
ProcFetch ==
  /\ procPc = "fetch"
  /\ procPos <= Len(notifications)
  /\ IF ~procMsg.valid
       THEN procPc' = "end" /\ procResult' = OnParseError("decode")
       ELSE IF targetTopic(typeString(procMsg.type)) = NoTopic
              THEN procPc' = "end" /\ procResult' = "resolved"
              ELSE procPc' = "send" /\ procResult' = procResult
  /\ UNCHANGED <<frontVars, serviceVars, simVars, gatewayVars, notifications, foreign, procPos,
                 procCommitted, routed>>

\* await producer.send({topic: targetTopic, messages: [{key: notification.id, value: pbBuffer}]})
ProcSend ==
  /\ procPc = "send"
  /\ \E e \in IngestOutcomes :
       /\ routed' = IF e = "nil"
                      THEN [routed EXCEPT ![targetTopic(typeString(procMsg.type))] =
                              Append(@, [key |-> procMsg.id, value |-> procMsg,
                                         offset |-> procPos])]
                      ELSE routed
       /\ procResult' = OnSendResult(e)
  /\ procPc' = "end"
  /\ UNCHANGED <<frontVars, serviceVars, simVars, gatewayVars, notifications, foreign, procPos,
                 procCommitted>>

\* kafkajs after eachMessage: a handler that resolved has its offset resolved
\* and committed and the next message follows; one that threw is called
\* again with the same message.
ProcEnd ==
  /\ procPc = "end"
  /\ procPc' = "fetch"
  /\ IF procResult = "resolved"
       THEN procPos' = procPos + 1 /\ procCommitted' = procPos + 1
       ELSE procPos' = procPos /\ procCommitted' = procCommitted
  /\ procResult' = ""
  /\ UNCHANGED <<frontVars, serviceVars, simVars, gatewayVars, notifications, foreign, routed>>

\* getNotification: redisClient.Get("notification:"+id); 404 when the key is
\* missing, else 200 with the cached notification.
getNotification(id) ==
  IF \E x \in redis : x.key = id
    THEN [status |-> 200, body |-> CHOOSE x \in redis : x.key = id]
    ELSE [status |-> 404, body |-> [key |-> id, Type |-> "", req |-> 0]]

GatewayNext ==
  \/ Tick
  \/ \E r \in Requests : Bind(r) \/ Cache(r) \/ Write(r) \/ Respond(r)

\* The gateway serving POST /notifications requests.
GatewaySpec == Init /\ [][GatewayNext]_vars

ProcessorNext == Inject \/ ProcFetch \/ ProcSend \/ ProcEnd

\* The processor consuming the notifications topic.
ProcessorSpec == Init /\ [][ProcessorNext]_vars

IngestNext == GatewayNext \/ ProcFetch \/ ProcSend \/ ProcEnd

\* The gateway serving requests and the processor routing what it publishes.
IngestSpec == Init /\ [][IngestNext]_vars

(***************************************************************************)
(* Dashboard: detectTypeAndSetRecipient                                    *)
(***************************************************************************)

\* The characters \d matches.
DigitChars == <<"0", "1", "2", "3", "4", "5", "6", "7", "8", "9">>

\* The other characters the README lists for a phone number.
SeparatorChars == <<"+", "(", ")", "-", " ">>

\* The characters \s matches (those a form field can hold).
WhiteSpace == {" ", "\t"}

IsDigit(ch) == \E k \in 1..Len(DigitChars) : DigitChars[k] = ch

\* The character class [\d\+\(\)\-\s].
PhoneClass(ch) == IsDigit(ch) \/ ch \in {"+", "(", ")", "-"} \/ ch \in WhiteSpace

\* n characters taken in turn from chars.
Block(chars, n) == [i \in 1..n |-> chars[((i - 1) % Len(chars)) + 1]]

\* What follows the digits and separators of a value.
Tails == {<<>>, <<"@", ".">>, <<".", "@">>, <<"a">>, <<".", "@", ".">>, <<"@">>}

\* The values e.target.value takes.
Values ==
  {Block(DigitChars, a) \o Block(SeparatorChars, b) \o t :
     a \in 0..MaxDigits, b \in 0..MaxSeparators, t \in Tails}

\* String.prototype.includes
includes(v, ch) == \E i \in 1..Len(v) : v[i] = ch

\* String.prototype.indexOf: the first index, from 0, or -1.
indexOf(v, ch) ==
  IF includes(v, ch)
    THEN (CHOOSE i \in 1..Len(v) : v[i] = ch /\ \A j \in 1..(i - 1) : v[j] # ch) - 1
    ELSE -1

\* Taking the first occurrence where the last is meant.
AsFirstIndexOf(v, ch) == indexOf(v, ch)

\* String.prototype.lastIndexOf: the last index, from 0, or -1.
lastIndexOf(v, ch) ==
  IF includes(v, ch)
    THEN (CHOOSE i \in 1..Len(v) : v[i] = ch /\ \A j \in (i + 1)..Len(v) : v[j] # ch) - 1
    ELSE -1

\* /^[\d\+\(\)\-\s]{10,20}$/.test(value)
MatchesPhone(v) == Len(v) \in 10..20 /\ \A i \in 1..Len(v) : PhoneClass(v[i])

\* value.replace(/\D/g, '').length
digitCount(v) == Len(SelectSeq(v, IsDigit))

\* The type detectTypeAndSetRecipient leaves in the form, prev being the type
\* before the call.
detectType(value, prev) ==
  IF Len(value) = 0 THEN ""
  ELSE IF includes(value, "@") /\ includes(value, ".")
            /\ indexOf(value, "@") < lastIndexOf(value, ".") THEN "EMAIL"
  ELSE IF MatchesPhone(value)
    THEN (IF digitCount(value) >= 10 /\ digitCount(value) <= 15 THEN "SMS" ELSE "PUSH")
  ELSE IF Len(value) > 0 THEN "PUSH"
  ELSE prev

\* onChange={(e) => detectTypeAndSetRecipient(e.target.value)}
detectTypeAndSetRecipient(value) ==
  /\ recipient' = value
  /\ type' = detectType(value, type)
  /\ UNCHANGED <<serviceVars, simVars, ingestVars, analyticsVars>>

DashboardNext == \E value \in Values : detectTypeAndSetRecipient(value)

DashboardSpec == Init /\ [][DashboardNext]_vars

(***************************************************************************)
(* Analytics Service: startConsumer (eachMessage), indexDeliveryEvent       *)
(***************************************************************************)

\* The event eachMessage is called with.
anMsg == deliveryEvents[anPos]

\* A message arrives on delivery-events: a JSON delivery event, or a payload
\* JSON.parse rejects.
Deliver ==
  /\ Len(deliveryEvents) < MaxEvents
  /\ \E ok \in BOOLEAN :
       deliveryEvents' = Append(deliveryEvents,
                                [valid |-> ok, notification_id |-> Len(deliveryEvents) + 1])
  /\ UNCHANGED <<serviceVars, simVars, ingestVars, dashboardVars, anPc, anPos, anCommitted,
                 esIndex>>

\* eachMessage up to the call of indexDeliveryEvent: JSON.parse throwing is
\* caught by eachMessage's catch, which logs it.
AnFetch ==
  /\ anPc = "fetch"
  /\ anPos <= Len(deliveryEvents)
  /\ anPc' = IF anMsg.valid THEN "index" ELSE "end"
  /\ UNCHANGED <<serviceVars, simVars, ingestVars, dashboardVars, deliveryEvents, anPos,
                 anCommitted, esIndex>>

\* indexDeliveryEvent: await esClient.index(...); a rejection is caught and
\* logged and the function returns normally.
AnIndex ==
  /\ anPc = "index"
  /\ \E e \in IngestOutcomes :
       esIndex' = IF e = "nil"
                    THEN esIndex \cup {[offset |-> anPos,
                                        notification_id |-> anMsg.notification_id]}
                    ELSE esIndex
  /\ anPc' = "end"
  /\ UNCHANGED <<serviceVars, simVars, ingestVars, dashboardVars, deliveryEvents, anPos,
                 anCommitted>>

\* kafkajs after eachMessage resolved: the offset is resolved and committed
\* and the next message follows.
AnEnd ==
  /\ anPc = "end"
  /\ anPc' = "fetch"
  /\ anPos' = anPos + 1
  /\ anCommitted' = anPos + 1
  /\ UNCHANGED <<serviceVars, simVars, ingestVars, dashboardVars, deliveryEvents, esIndex>>

AnalyticsNext == Deliver \/ AnFetch \/ AnIndex \/ AnEnd

AnalyticsSpec == Init /\ [][AnalyticsNext]_vars

(***************************************************************************)
(* main                                                                    *)
(***************************************************************************)

\* main not waiting for the goroutines.
AsNoWait == TRUE

\* wg.Wait(): every goroutine has run its deferred wg.Done().
WaitGroupDone == \A c \in Channels : pc[c] = "stopped"

\* A main that logs a failed construction and starts the goroutines anyway.
AsStartAnyway(ok) == "fetch"

\* Where the handler goroutines are once main is past its construction
\* calls: after an error log.Fatalf has ended the process before any `go`
\* statement; otherwise every goroutine has been started and is in Start.
WorkersAfterStartup(ok) == IF ok THEN "fetch" ELSE "notStarted"

\* mongo.NewClient succeeds, the three NewHandler calls build reader and
\* writer, and the goroutines are started.
MainStart ==
  /\ mainPc = "start"
  /\ mainPc' = "running"
  /\ mongo' = "open"
  /\ consumerOpen' = [c \in Channels |-> TRUE]
  /\ producerOpen' = [c \in Channels |-> TRUE]
  /\ pc' = [c \in Channels |-> WorkersAfterStartup(TRUE)]
  /\ pos' = [c \in Channels |-> StartOffsetOf(log[c], committed[c])]
  /\ UNCHANGED <<frontVars, ingestVars, simVars, held, down, hIdx, ctxDone, shutdownChan, atSignal, inFlight, msg, result, brokerVars,
                 processed, faults, crashes>>

\* mongo.NewClient fails: log.Fatalf ends the process.
MainFatal ==
  /\ mainPc = "start"
  /\ faults < MaxFaults
  /\ faults' = faults + 1
  /\ mainPc' = "fatal"
  /\ pc' = [c \in Channels |-> WorkersAfterStartup(FALSE)]
  /\ UNCHANGED <<frontVars, ingestVars, simVars, held, down, hIdx, ctxDone, mongo, shutdownChan, consumerOpen,
                 producerOpen, atSignal, inFlight, msg, result, pos, brokerVars,
                 processed, crashes>>

\* <-sigChan; cancel()
Signal ==
  /\ mainPc = "running"
  /\ ctxDone' = TRUE
  /\ mainPc' = "closing"
  /\ hIdx' = 1
  /\ atSignal' = [c \in Channels |-> InIteration(c)]
  /\ UNCHANGED <<frontVars, ingestVars, simVars, held, down, mongo, shutdownChan, consumerOpen, producerOpen, inFlight,
                 pc, msg, result, pos, brokerVars, processed, faults, crashes>>

\* handler.Close() of the next handler in allHandlers: close(h.shutdownChan),
\* h.consumer.Close(), h.producer.Close().
Close ==
  /\ mainPc = "closing"
  /\ shutdownChan' = [shutdownChan EXCEPT ![allHandlers[hIdx]] = "closed"]
  /\ consumerOpen' = [consumerOpen EXCEPT ![allHandlers[hIdx]] = FALSE]
  /\ producerOpen' = [producerOpen EXCEPT ![allHandlers[hIdx]] = FALSE]
  /\ held' = [held EXCEPT ![allHandlers[hIdx]] = Len(log[allHandlers[hIdx]])]
  /\ IF hIdx = Len(allHandlers)
       THEN mainPc' = "wait" /\ hIdx' = hIdx
       ELSE mainPc' = mainPc /\ hIdx' = hIdx + 1
  /\ UNCHANGED <<frontVars, ingestVars, simVars, down, ctxDone, mongo, atSignal, inFlight, pc, msg, result, pos, brokerVars,
                 processed, faults, crashes>>

\* wg.Wait() returns; "Delivery Service stopped" is logged.
MainWait ==
  /\ mainPc = "wait"
  /\ WaitGroupDone
  /\ mainPc' = "stopped"
  /\ UNCHANGED <<frontVars, ingestVars, simVars, held, down, hIdx, ctxDone, mongo, shutdownChan, consumerOpen, producerOpen,
                 atSignal, inFlight, pc, msg, result, pos, brokerVars, processed, faults, crashes>>

\* main returns: the deferred cancel() and mongoClient.Close() run.
MainExit ==
  /\ mainPc = "stopped"
  /\ mainPc' = "exited"
  /\ mongo' = "closed"
  /\ UNCHANGED <<frontVars, ingestVars, simVars, held, down, hIdx, ctxDone, shutdownChan, consumerOpen, producerOpen,
                 atSignal, inFlight, pc, msg, result, pos, brokerVars, processed, faults, crashes>>

MainStep ==
  MainStart \/ MainFatal \/ Signal \/ Close
    \/ MainWait \/ MainExit

(***************************************************************************)
(* Environment                                                             *)
(***************************************************************************)

\* The upstream producer appends a message to a channel's topic.
Produce(c) ==
  /\ TotalAppended < MaxMsgs
  /\ \E p \in {Notification(c, Len(log[c]) + 1), Malformed(c, Len(log[c]) + 1)} :
       log' = [log EXCEPT ![c] = Append(@, p)]
  /\ UNCHANGED <<frontVars, ingestVars, simVars, held, down, mainVars, atSignal, inFlight, pc, msg, result, pos, committed, store, events,
                 processed, faults, crashes>>

\* The process dies at any point (or has ended) and is started again: all
\* process state is lost, the topics, the group offsets and the collection
\* stay.
Crash ==
  /\ mainPc # "start"
  /\ crashes < MaxCrashes
  /\ crashes' = crashes + 1
  /\ mainPc' = "start"
  /\ hIdx' = 1
  /\ ctxDone' = FALSE
  /\ mongo' = "none"
  /\ shutdownChan' = [c \in Channels |-> "open"]
  /\ consumerOpen' = [c \in Channels |-> FALSE]
  /\ producerOpen' = [c \in Channels |-> FALSE]
  /\ pc' = [c \in Channels |-> "notStarted"]
  /\ msg' = [c \in Channels |-> NoMessage]
  /\ result' = [c \in Channels |-> NoResult]
  /\ pos' = [c \in Channels |-> 1]
  /\ atSignal' = [c \in Channels |-> FALSE]
  /\ inFlight' = [c \in Channels |-> {}]
  /\ held' = [c \in Channels |-> 0]
  /\ UNCHANGED <<frontVars, ingestVars, simVars, down, brokerVars, processed, faults>>

Next ==
  \/ MainStep
  \/ \E c \in Channels : WorkerStep(c)
  \/ \E c \in Channels : Produce(c)

\* The service from start to its graceful shutdown.
Spec == Init /\ [][Next]_vars

\* The service running, crashing and restarting.
NextCrash ==
  \/ MainStart
  \/ MainFatal
  \/ \E c \in Channels : WorkerStep(c)
  \/ \E c \in Channels : Produce(c)
  \/ Crash

CrashSpec == Init /\ [][NextCrash]_vars

\* The service in steady state: started, without transient transport errors
\* and without a shutdown; the connections of one handler may go down for
\* good.
SteadyInit ==
  /\ mainPc = "start"
  /\ hIdx = 1
  /\ ctxDone = FALSE
  /\ mongo = "none"
  /\ shutdownChan = [c \in Channels |-> "open"]
  /\ consumerOpen = [c \in Channels |-> FALSE]
  /\ producerOpen = [c \in Channels |-> FALSE]
  /\ pc = [c \in Channels |-> "notStarted"]
  /\ msg = [c \in Channels |-> NoMessage]
  /\ result = [c \in Channels |-> NoResult]
  /\ pos = [c \in Channels |-> 1]
  /\ log = [c \in Channels |-> <<>>]
  /\ committed = [c \in Channels |-> NoOffset]
  /\ store = EmptyBag
  /\ events = EmptyBag
  /\ processed = [c \in Channels |-> {}]
  /\ atSignal = [c \in Channels |-> FALSE]
  /\ inFlight = [c \in Channels |-> {}]
  /\ faults = MaxFaults
  /\ crashes = 0
  /\ down = {}
  /\ held = [c \in Channels |-> 0]
  /\ SimIdle
  /\ IngestIdle
  /\ FrontIdle

\* The connections of handler c go down and stay down.
Break(c) ==
  /\ mainPc = "running"
  /\ down = {}
  /\ down' = {c}
  /\ UNCHANGED <<frontVars, ingestVars, simVars, held, mainVars, brokerVars, pc, msg, result, pos, processed,
                 atSignal, inFlight, faults, crashes>>

SteadyNext ==
  \/ MainStart
  \/ \E c \in Channels : WorkerStep(c)
  \/ \E c \in Channels : Produce(c)
  \/ \E c \in Channels : Break(c)

\* Every handler goroutine runs on its own and is scheduled whenever it can
\* take a step.
SteadySpec ==
  /\ SteadyInit
  /\ [][SteadyNext]_vars
  /\ WF_vars(MainStart)
  /\ \A c \in Channels : WF_vars(WorkerStep(c))

\* The Go scheduler runs every goroutine that can take a step: each worker,
\* and main once it is past <-sigChan.  The signal itself and the producers
\* are under no obligation.
MainProgress == MainStart \/ MainFatal \/ Close \/ MainWait \/ MainExit

Fairness ==
  /\ WF_vars(MainProgress)
  /\ \A c \in Channels : WF_vars(WorkerStep(c))

LiveSpec == Spec /\ Fairness

(***************************************************************************)
(* Properties                                                              *)
(***************************************************************************)

\* Handler c took a step of its loop.
Moved(c) == pc'[c] # pc[c] \/ msg'[c] # msg[c]

\* The payload of the message handler c has in hand.
Payload(c) == log[c][msg[c]]

\* C1: every iteration that fetched a message goes on to the commit of
\* exactly that message: from the fetch the worker goes to the save or (on a
\* deserialization error) to the commit, from the save to the publish or the
\* commit, from the publish to the commit, always holding the fetched
\* message, which is the one the reader returned last.
C1_EveryIterationCommits ==
  [][\A c \in Channels :
       /\ (pc[c] = "fetch" /\ msg'[c] # msg[c])
            => pc'[c] \in {"save", "commit"} /\ msg'[c] = pos[c]
       /\ (pc[c] = "save" /\ Moved(c)) => pc'[c] \in {"publish", "commit"} /\ msg'[c] = msg[c]
       /\ (pc[c] = "publish" /\ Moved(c)) => pc'[c] = "commit" /\ msg'[c] = msg[c]
       /\ (pc[c] = "commit" /\ Moved(c) /\ committed'[c] # committed[c])
            => committed'[c] = msg[c] + 1]_vars

\* C1 witness: a worker is at the commit of a message whose outcome was
\* saved but whose publish failed.
C1_Witness ==
  \E c \in Channels :
    /\ pc[c] = "commit"
    /\ result[c] # NoResult
    /\ CopiesIn(result[c], store) = 1
    /\ \A ev \in BagToSet(events) : ev.key # result[c].notification_id

Saved(c) == CopiesIn(result[c], store) > 0
Published(c) ==
  CopiesIn([key |-> result[c].notification_id, value |-> result[c]], events) > 0

\* C3 as stated: when a worker ends the iteration of a message it had in hand
\* when the shutdown was initiated, that message is committed and, if it
\* deserialized, its outcome is saved and published (in a run where no call
\* met a transport error, so that only the shutdown can have interfered).
C3_InFlightCompletesAtShutdown ==
  [][\A c \in Channels :
       (atSignal[c] /\ faults' = 0 /\ pc[c] = "commit" /\ Moved(c)) =>
          /\ committed'[c] = msg[c] + 1
          /\ Payload(c).valid => Saved(c) /\ Published(c)]_vars

\* C4 as stated: for the message a worker had in hand when the signal was
\* broadcast, none of the save, publish and commit calls fails or is skipped
\* other than by a transport error.
C4_SignalNeverFailsInFlightCall ==
  [][\A c \in Channels :
       (atSignal[c] /\ faults' = faults) =>
         /\ (pc[c] = "save" /\ Moved(c)) => pc'[c] = "publish" /\ store' # store
         /\ (pc[c] = "publish" /\ Moved(c)) => events' # events
         /\ (pc[c] = "commit" /\ Moved(c)) => committed'[c] # committed[c]]_vars

\* Message i of channel c is the one its worker has in hand.
InFlight(c, i) == InIteration(c) /\ msg[c] = i

RecordsFor(coll, id) ==
  BagCardinality([x \in {y \in BagToSet(coll) : y.notification_id = id} |-> coll[x]])

C7_MalformedSkippedAndCommitted ==
  [][\A c \in Channels :
       /\ (pc[c] = "fetch" /\ msg'[c] # msg[c] /\ ~log[c][msg'[c]].valid)
            => pc'[c] = "commit" /\ store' = store /\ events' = events
       /\ (InIteration(c) /\ Moved(c) /\ ~Payload(c).valid)
            => /\ pc[c] = "commit"
               /\ store' = store /\ events' = events
               /\ committed'[c] \in {committed[c], msg[c] + 1}]_vars

\* C7 witness: a malformed message has been committed and nothing was saved
\* or published for its channel.
C7_Witness ==
  \E c \in Channels : \E i \in 1..Len(log[c]) :
    /\ ~log[c][i].valid
    /\ committed[c] = i + 1
    /\ \A r \in BagToSet(store) : r.type # TypeOf(c)
    /\ \A ev \in BagToSet(events) : ev.value.type # TypeOf(c)

\* Offsets a topic of the model can hold.
Offsets == 1..MaxMsgs

\* The valid messages of channel c that come after a malformed message its
\* worker has handled and that are not processed yet.
PendingAfterMalformed(c) ==
  {j \in 1..Len(log[c]) :
     /\ log[c][j].valid
     /\ j \notin processed[c]
     /\ \E i \in 1..(j - 1) : ~log[c][i].valid /\ i \in processed[c]}

\* C8: once a malformed message of a channel has been handled, every valid
\* message after it on that channel's topic is eventually processed, unless
\* the shutdown signal arrives first.
C8_MalformedNeverBlocks ==
  (\E c \in Channels : PendingAfterMalformed(c) # {})
    ~> ((\A c \in Channels : PendingAfterMalformed(c) = {}) \/ ctxDone)

\* C8 witness: on one channel a malformed message and a valid message after
\* it have both been processed.
C8_Witness ==
  \E c \in Channels : \E i \in Offsets : \E j \in Offsets :
    /\ i < j
    /\ j <= Len(log[c])
    /\ ~log[c][i].valid
    /\ log[c][j].valid
    /\ {i, j} \subseteq processed[c]

\* C9: after the shutdown signal every worker returns from Start and main
\* reports the service stopped.
C9_ShutdownTerminates ==
  ctxDone ~> (mainPc \in {"stopped", "exited"} /\ \A c \in Channels : pc[c] = "stopped")

\* C9 witness: the service has stopped after a shutdown that found a worker
\* in the middle of an iteration, whose message was left uncommitted.
C9_Witness ==
  /\ mainPc = "stopped"
  /\ \E c \in Channels : msg[c] # NoMessage /\ committed[c] <= msg[c]

\* C10: main has reported the service stopped, or closed the MongoDB client,
\* only if every worker has returned from Start.
C10_StoppedOnlyAfterWorkers ==
  (mainPc \in {"stopped", "exited"} \/ mongo = "closed")
    => \A c \in Channels : pc[c] = "stopped"

\* C10 witness: main has closed the MongoDB client after a shutdown in which
\* a worker had handled a message.
C10_Witness ==
  /\ mongo = "closed"
  /\ \E c \in Channels : msg[c] # NoMessage

\* C11: within a channel the iterations follow one another in fetch order:
\* a message is fetched only when no earlier message of the channel is still
\* unfinished, and it lies after the one fetched before; every save, publish
\* and commit acts on the message fetched last while it is the only unfinished
\* one; and a commit moves the committed offset forward, to just past that
\* message.
C11_FetchOrderWithinChannel ==
  [][\A c \in Channels :
       /\ (msg'[c] # msg[c]) => inFlight[c] = {} /\ msg'[c] > msg[c]
       /\ (pc[c] = "save" /\ Moved(c) /\ store' # store)
            => /\ inFlight[c] = {msg[c]}
               /\ store' = store (+) SetToBag({result[c]})
               /\ result[c].notification_id = <<c, msg[c]>>
       /\ (pc[c] = "publish" /\ Moved(c) /\ events' # events)
            => /\ inFlight[c] = {msg[c]}
               /\ events' = WriteMessages(events, result[c])
               /\ result[c].notification_id = <<c, msg[c]>>
       /\ (committed'[c] # committed[c])
            => /\ inFlight[c] = {msg[c]}
               /\ committed'[c] = msg[c] + 1
               /\ committed'[c] > committed[c]]_vars

\* C11 witness: two messages of one channel have been saved, published and
\* committed one after the other.
C11_Witness ==
  \E c \in Channels :
    /\ committed[c] = 3
    /\ RecordsFor(store, <<c, 1>>) = 1
    /\ RecordsFor(store, <<c, 2>>) = 1
    /\ BagCardinality(events) = 2

\* C12: a worker never has more than one fetched message whose iteration has
\* not ended, and that message is the one it holds.
C12_OneInFlightPerChannel ==
  \A c \in Channels :
    /\ Cardinality(inFlight[c]) <= 1
    /\ inFlight[c] # {} => (InIteration(c) /\ inFlight[c] = {msg[c]})
    /\ InIteration(c) => inFlight[c] = {msg[c]}

\* C12 witness: two workers each have a message in flight at the same time.
C12_Witness ==
  \E c \in Channels : \E d \in Channels :
    /\ c # d
    /\ Cardinality(inFlight[c]) = 1
    /\ Cardinality(inFlight[d]) = 1

\* The events of the completion topic with a given key.
EventsFor(topic, id) ==
  BagCardinality([x \in {y \in BagToSet(topic) : y.key = id} |-> topic[x]])

\* C13: in a run of the service each fetched notification gets one attempt,
\* which leaves at most one record and at most one completion event for it;
\* the outcome built after the fetch is the one the attempt holds to its
\* end, and a save or a publish that has returned is not called again.
C13_OneOutcomePerAttempt ==
  /\ [](\A c \in Channels : \A i \in Offsets :
          RecordsFor(store, <<c, i>>) <= 1 /\ EventsFor(events, <<c, i>>) <= 1)
  /\ [][\A c \in Channels :
          /\ (pc[c] \in {"save", "publish"}) => result'[c] = result[c]
          /\ (pc[c] \in {"save", "publish"} /\ Moved(c))
               => /\ pc'[c] \notin {"save", "fetch"}
                  /\ pc'[c] = "publish" => pc[c] = "save"]_vars

\* C13 witness: an attempt whose save succeeded and whose publish failed has
\* ended: one record, no event, and the worker is back at the fetch.
C13_Witness ==
  \E c \in Channels :
    /\ pc[c] = "fetch"
    /\ msg[c] = 1
    /\ inFlight[c] = {}
    /\ RecordsFor(store, <<c, 1>>) = 1
    /\ EventsFor(events, <<c, 1>>) = 0

\* A DeliveryResult has a status of SENT or FAILED, and an error message
\* exactly when it is FAILED.
WellFormedOutcome(r) ==
  /\ r.status \in {"SENT", "FAILED"}
  /\ (r.error_message # "") <=> (r.status = "FAILED")

\* C14: every outcome a worker holds, has saved or has published has status
\* SENT or FAILED and a non-empty error_message exactly when it is FAILED.
C14_OutcomeWellFormed ==
  /\ \A c \in Channels : result[c] # NoResult => WellFormedOutcome(result[c])
  /\ \A r \in BagToSet(store) : WellFormedOutcome(r)
  /\ \A ev \in BagToSet(events) : WellFormedOutcome(ev.value)

\* C14 witness: the collection holds a FAILED outcome carrying its channel's
\* error message, and a SENT outcome without one.
C14_Witness ==
  /\ \E r \in BagToSet(store) :
       r.status = "FAILED" /\ \E c \in Channels : r.error_message = ErrorMessageOf(c)
  /\ \E r \in BagToSet(store) : r.status = "SENT" /\ r.error_message = ""

\* The calls of worker c meet no failure in this step: ctx is not cancelled,
\* the clients are open and no transport error happens.
Healthy(c) ==
  /\ ~ctxDone
  /\ mongo = "open"
  /\ producerOpen[c]
  /\ consumerOpen[c]
  /\ faults' = faults

\* C15: an outcome of status FAILED goes the way of a SENT one: after the
\* simulator returned it the worker is at the save and processMessage has not
\* returned; with the store and the topic healthy the save adds it to the
\* collection, the publish adds it to the completion topic, and the commit
\* follows.
C15_FailedOutcomeSavedAndPublished ==
  [][\A c \in Channels :
       /\ (msg'[c] # msg[c] /\ result'[c].status = "FAILED")
            => pc'[c] = "save" /\ msg'[c] \notin processed'[c]
       /\ (pc[c] = "save" /\ Moved(c) /\ result[c].status = "FAILED" /\ Healthy(c))
            => store' = store (+) SetToBag({result[c]}) /\ pc'[c] = "publish"
       /\ (pc[c] = "publish" /\ Moved(c) /\ result[c].status = "FAILED" /\ Healthy(c))
            => events' = WriteMessages(events, result[c]) /\ pc'[c] = "commit"]_vars

\* C15 witness: a FAILED outcome is in the collection and on the completion
\* topic, and its message is committed.
C15_Witness ==
  \E c \in Channels : \E r \in BagToSet(store) :
    /\ r.status = "FAILED"
    /\ r.notification_id = <<c, 1>>
    /\ CopiesIn([key |-> r.notification_id, value |-> r], events) = 1
    /\ committed[c] = 2

\* C16 as stated: the delivery_time_ms of every outcome built lies within
\* [MinDelayMs, MaxDelayMs] of the policy.
C16_LatencyWithinPolicyInterval ==
  simPc = "built" =>
    /\ config.MinDelayMs <= deliveryResult.delivery_time_ms
    /\ deliveryResult.delivery_time_ms <= config.MaxDelayMs

\* C17 as stated: the delays simulateDelivery can draw for a policy are
\* exactly the integers MinDelayMs .. MaxDelayMs.
C17_DrawsCoverClosedInterval ==
  simPc = "sleep" => Draws(config) = config.MinDelayMs..config.MaxDelayMs

\* C18: simulateDelivery returns FAILED with the policy's ErrorMessage
\* exactly when the sample is below FailureRate, and SENT without an error
\* otherwise; a FailureRate of 0 never gives FAILED and a FailureRate of 1
\* always does; the outcome built carries that status and message.
C18_FailedIffSampleBelowRate ==
  /\ simPc \in {"returned", "built"} =>
       /\ (sample < config.FailureRate)
            <=> (simReturn.status = "FAILED" /\ simReturn.error = config.ErrorMessage)
       /\ (sample >= config.FailureRate)
            <=> (simReturn.status = "SENT" /\ simReturn.error = "")
       /\ config.FailureRate = 0 => simReturn.status = "SENT"
       /\ config.FailureRate = SampleSteps => simReturn.status = "FAILED"
  /\ simPc = "built" =>
       /\ deliveryResult.status = simReturn.status
       /\ deliveryResult.error_message = simReturn.error

\* C18 witness: with FailureRate 1 and ErrorMessage "SMTP timeout" the
\* outcome built is FAILED with that message.
C18_Witness ==
  /\ simPc = "built"
  /\ config.FailureRate = SampleSteps
  /\ config.ErrorMessage = "SMTP timeout"
  /\ deliveryResult.status = "FAILED"
  /\ deliveryResult.error_message = "SMTP timeout"

\* C19 as stated: for every policy with 0 <= MinDelayMs <= MaxDelayMs,
\* simulateDelivery returns and never aborts the worker.
C19_SimulatorNeverPanics == simPc # "panic"

\* The records of the collection with a given type.
RecordsOfType(coll, t) == [x \in {y \in BagToSet(coll) : y.type = t} |-> coll[x]]

\* C20: a step that leaves a worker at its fetch without a message, as a
\* failed fetch does, changes neither its read position nor the committed
\* offset, processes, saves and publishes nothing of its channel, and leaves
\* the worker at the fetch, unless its shutdown channel is closed.
C20_FetchFailureRetriesSamePosition ==
  [][\A c \in Channels :
       (pc[c] = "fetch" /\ msg'[c] = msg[c]) =>
          /\ pos'[c] = pos[c]
          /\ committed'[c] = committed[c]
          /\ processed'[c] = processed[c]
          /\ inFlight'[c] = inFlight[c]
          /\ result'[c] = result[c]
          /\ RecordsOfType(store', TypeOf(c)) = RecordsOfType(store, TypeOf(c))
          /\ \A ev \in BagToSet(events') : ev.value.type = TypeOf(c) => ev \in BagToSet(events)
          /\ pc'[c] \in {"fetch", "stopped"}
          /\ pc'[c] = "stopped" => shutdownChan[c] = "closed"]_vars

\* C20 witness: a fetch has failed in the running service (the transport
\* error is spent and no worker has had a message yet), and a worker is at
\* the fetch again with a message waiting at its unchanged read position.
C20_Witness ==
  /\ mainPc = "running"
  /\ faults > 0
  /\ \A c \in Channels : msg[c] = NoMessage
  /\ \E c \in Channels : pc[c] = "fetch" /\ pos[c] <= Len(log[c])

\* Handler c has started and has a message waiting at its read position or
\* in hand.
Backlog(c) == pc[c] # "notStarted" /\ (pos[c] <= Len(log[c]) \/ InIteration(c))

\* C21: while the connections of one handler are down, every other handler
\* that has messages waiting or in hand gets through all of them: each is
\* processed, and the committed offset ends just past the last one.
C21_FaultIsolationPerChannel ==
  (down # {} /\ \E c \in Channels \ down : Backlog(c))
    ~> (\A c \in Channels \ down :
          /\ ~Backlog(c)
          /\ msg[c] # NoMessage => (msg[c] \in processed[c] /\ committed[c] = msg[c] + 1))

\* C21 witness: one handler is down with a message it cannot fetch, and
\* another handler has processed and committed a message of its own.
C21_Witness ==
  \E b \in down : \E c \in Channels \ down :
    /\ pos[b] <= Len(log[b])
    /\ msg[c] # NoMessage
    /\ msg[c] \in processed[c]
    /\ committed[c] = msg[c] + 1

\* C22: a handler goroutine runs only if main got through the construction
\* of the store client and of all three handlers, and then all three have
\* been started; when the construction failed the process has ended with no
\* goroutine started, no message fetched or processed and nothing saved,
\* published or committed.
C22_StartupAllOrNothing ==
  /\ (\E c \in Channels : pc[c] # "notStarted") =>
       /\ mainPc \notin {"start", "fatal"}
       /\ mongo # "none"
       /\ \A c \in Channels : pc[c] # "notStarted"
  /\ mainPc = "fatal" =>
       /\ mongo = "none"
       /\ \A c \in Channels :
            /\ pc[c] = "notStarted"
            /\ msg[c] = NoMessage
            /\ processed[c] = {}
            /\ committed[c] = NoOffset
       /\ store = EmptyBag
       /\ events = EmptyBag

\* C22 witness: the construction failed while messages were waiting on a
\* topic.
C22_Witness ==
  /\ mainPc = "fatal"
  /\ \E c \in Channels : Len(log[c]) > 0

\* C23: every event on the delivery-events topic, whichever handler wrote
\* it, has as its key the notification_id of the outcome it carries, and that
\* outcome is one a handler built for a notification of its own topic.
C23_EventsKeyedByNotificationId ==
  \A ev \in BagToSet(events) :
    /\ ev.key = ev.value.notification_id
    /\ \E c \in Channels : \E i \in 1..Len(log[c]) :
         ev.key = <<c, i>> /\ ev.value.type = TypeOf(c)

\* C23 witness: the delivery-events topic holds events of two handlers.
C23_Witness ==
  \E e1 \in BagToSet(events) : \E e2 \in BagToSet(events) :
    e1.value.type # e2.value.type

\* Request r was accepted: its body bound and it was given an id.
Accepted(r) == req[r].wellformed /\ req[r].pc # "idle"

\* C24 as stated: any two accepted requests have different ids.
C24_IdsUnique ==
  \A r1 \in Requests : \A r2 \in Requests :
    (r1 # r2 /\ Accepted(r1) /\ Accepted(r2)) => req[r1].id # req[r2].id

\* The notification of request r is on the notifications topic / in Redis /
\* on a type topic.
OnTopic(r) == \E i \in 1..Len(notifications) : notifications[i].req = r
Cached(r) == \E x \in redis : x.req = r
Routed(r) == \E t \in TypeTopics : \E k \in 1..Len(routed[t]) : routed[t][k].value.req = r

\* C25 as stated: a request whose type is none of EMAIL, SMS, PUSH is
\* answered 400 and its notification is neither cached nor published, and so
\* never routed.
C25_InvalidTypeRejected ==
  \A r \in Requests :
    (Accepted(r) /\ req[r].Type \notin {"EMAIL", "SMS", "PUSH"}) =>
      /\ req[r].status \in {NoStatus, 400}
      /\ ~Cached(r)
      /\ ~OnTopic(r)
      /\ ~Routed(r)

C27_RedisOptional ==
  \A r \in Requests :
    req[r].cacheErr = "err" =>
      /\ req[r].pc \in {"write", "respond", "done"}
      /\ req[r].pc \in {"respond", "done"} => req[r].writeErr \in {"nil", "err"}
      /\ (req[r].pc = "done" /\ req[r].writeErr = "nil") => (req[r].status = 201 /\ OnTopic(r))

\* C27 witness: a request whose Redis write failed was answered 201, with its
\* notification on the topic and not in the cache.
C27_Witness ==
  \E r \in Requests :
    /\ req[r].cacheErr = "err"
    /\ req[r].status = 201
    /\ OnTopic(r)
    /\ ~Cached(r)

\* The message at offset i does not decode or has a type number that is none
\* of EMAIL, SMS, PUSH.
Unroutable(i) == ~notifications[i].valid \/ notifications[i].type \notin {0, 1, 2}

\* The entries of the type topics that come from the message at offset i.
EntriesOf(i) ==
  {<<t, k>> \in TypeTopics \X (1..Len(notifications)) : k <= Len(routed[t]) /\ routed[t][k].offset = i}

\* The topic the routing table gives a type number.
TopicOfType(n) ==
  CASE n = 0 -> "email-notifications"
    [] n = 1 -> "sms-notifications"
    [] n = 2 -> "push-notifications"
    [] OTHER -> ""

\* C28: a decoded notification of type EMAIL, SMS or PUSH is handed to
\* producer.send, and a send puts exactly that notification, keyed by its id,
\* on the topic of its type (EMAIL on email-notifications, SMS on
\* sms-notifications, PUSH on push-notifications) and on no other; every
\* message on a type topic is of that topic's type, and no input message is
\* on more than one topic or more than once on one.
C28_RoutedByType ==
  /\ [](/\ \A t \in TypeTopics : \A k \in 1..Len(routed[t]) :
             LET e == routed[t][k] IN
               /\ e.value = notifications[e.offset]
               /\ e.value.valid
               /\ e.key = e.value.id
               /\ t = TopicOfType(e.value.type)
        /\ \A i \in 1..Len(notifications) : Cardinality(EntriesOf(i)) <= 1)
  /\ [][/\ (procPc = "fetch" /\ procPc' # procPc /\ ~Unroutable(procPos)) => procPc' = "send"
        /\ routed' # routed =>
             /\ procPc = "send"
             /\ ~Unroutable(procPos)
             /\ routed' = [routed EXCEPT ![TopicOfType(notifications[procPos].type)] =
                             Append(@, [key |-> notifications[procPos].id,
                                        value |-> notifications[procPos],
                                        offset |-> procPos])]]_vars

\* C28 witness: each of the three type topics has been sent a notification.
C28_Witness == \A t \in TypeTopics : Len(routed[t]) = 1

\* C29: for a message that does not decode or has an unknown type, the
\* processor sends nothing: from the fetch it goes straight to the end of the
\* handler, the type topics stay as they are, and the consumer then moves on
\* to the next offset.
C29_UnroutableSkipped ==
  [][(procPos <= Len(notifications) /\ Unroutable(procPos)) =>
        /\ routed' = routed
        /\ (procPc = "fetch" /\ procPc' # procPc) => procPc' = "end"
        /\ (procPc = "end" /\ procPc' # procPc) => (procPc' = "fetch" /\ procPos' = procPos + 1)
        /\ procPc # "send"]_vars

\* C29 witness: a notification that follows a message of each unroutable
\* kind has been routed.
C29_Witness ==
  /\ Len(notifications) = 3
  /\ ~notifications[1].valid
  /\ notifications[2].valid /\ notifications[2].type = 7
  /\ EntriesOf(3) # {}

\* C30 as stated: the offset of a notification of a known type is committed
\* only if the notification was sent to its topic.
C30_CommitOnlyAfterRouted ==
  \A i \in 1..Len(notifications) :
    (i < procCommitted /\ ~Unroutable(i)) => EntriesOf(i) # {}

\* The recipient is made only of digits and the characters + ( ) - and space.
PhoneShaped(v) == \A i \in 1..Len(v) : IsDigit(v[i]) \/ v[i] \in {"+", "(", ")", "-", " "}

\* The number of digits of v.
DigitsIn(v) == Cardinality({i \in 1..Len(v) : IsDigit(v[i])})

\* C31 as stated: a recipient made only of digits and + ( ) - space with
\* between 10 and 15 digits is detected as SMS, whatever its length.
C31_PhoneDetectedAsSms ==
  (PhoneShaped(recipient) /\ DigitsIn(recipient) \in 10..15) => type = "SMS"

\* Some '@' of v stands before some '.', which is the first '@' standing
\* before the last '.'.
EmailShaped(v) == \E i \in 1..Len(v) : \E j \in (i + 1)..Len(v) : v[i] = "@" /\ v[j] = "."

\* C32: the type shown is decided by the recipient shown: empty for the
\* empty recipient; EMAIL exactly for a recipient with an '@' before a '.';
\* SMS only for a recipient that is not an email, and PUSH for every other
\* non-empty recipient; entering the recipient again, whatever type was
\* shown before, leaves the type as it is.
C32_TypeFunctionOfRecipient ==
  /\ [](/\ recipient = <<>> => type = ""
        /\ recipient # <<>> => type \in {"EMAIL", "SMS", "PUSH"}
        /\ (type = "EMAIL") <=> EmailShaped(recipient)
        /\ (recipient # <<>> /\ ~PhoneShaped(recipient) /\ ~EmailShaped(recipient))
             => type = "PUSH")
  /\ [][recipient' = recipient => type' = type]_vars

\* C32 witness: after another type was shown, a recipient with an '@' after
\* its last '.' and one before it is shown as EMAIL.
C32_Witness ==
  /\ recipient = <<".", "@", ".">>
  /\ type = "EMAIL"

\* Outcome r carries the id, type and recipient of notification n.
CopiedFrom(r, n) ==
  /\ n.valid
  /\ r.notification_id = n.id
  /\ r.type = n.type
  /\ r.recipient = n.recipient

\* Outcome r carries the id, type and recipient of a notification of some
\* input topic.
OfSomeNotification(r) ==
  \E c \in Channels : \E i \in 1..Len(log[c]) : CopiedFrom(r, log[c][i])

\* C33: the outcome a worker holds carries the id, type and recipient of the
\* notification it fetched in this iteration; every saved record and every
\* published event carries those of a notification of an input topic, and
\* for every event the collection holds a record of the same notification
\* with the same status, latency and error message.
C33_OutcomeCopiesNotification ==
  /\ \A c \in Channels : result[c] # NoResult => CopiedFrom(result[c], Payload(c))
  /\ \A r \in BagToSet(store) : OfSomeNotification(r)
  /\ \A ev \in BagToSet(events) :
       /\ OfSomeNotification(ev.value)
       /\ \E r \in BagToSet(store) :
            /\ r.notification_id = ev.value.notification_id
            /\ r.status = ev.value.status
            /\ r.delivery_time_ms = ev.value.delivery_time_ms
            /\ r.error_message = ev.value.error_message

\* C33 witness: a FAILED and a SENT outcome have both been saved and
\* published.
C33_Witness ==
  \E e1 \in BagToSet(events) : \E e2 \in BagToSet(events) :
    /\ e1.value.status = "FAILED" /\ e1.value.delivery_time_ms > 0
    /\ e2.value.status = "SENT"
    /\ e1.value.recipient # e2.value.recipient
    /\ {r.notification_id : r \in BagToSet(store)} = {e1.key, e2.key}

\* C34: in a run of the service the committed offset of a channel never
\* decreases and is never past the offset after the last fetched message; a
\* commit attempt ends the iteration whether it fails or not, a failed one
\* leaving the committed offset as it is, and a successful one puts it past
\* every message fetched so far, those whose commit failed included.
C34_CommittedMonotonic ==
  /\ [](\A c \in Channels : committed[c] <= msg[c] + 1 /\ committed[c] <= pos[c])
  /\ [][\A c \in Channels :
          /\ committed'[c] >= committed[c]
          /\ (pc[c] = "commit" /\ Moved(c)) =>
               /\ pc'[c] \in {"fetch", "stopped"}
               /\ committed'[c] \in {committed[c], msg[c] + 1}
               /\ committed'[c] # committed[c] =>
                    \A i \in 1..msg[c] : i < committed'[c]]_vars

\* C34 witness: a worker is at the commit of the second message of its topic
\* while the group has no committed offset: the commit of the first failed
\* and the worker went on.
C34_Witness ==
  \E c \in Channels :
    /\ pc[c] = "commit"
    /\ msg[c] = 2
    /\ 1 \in processed[c]
    /\ committed[c] = NoOffset

\* C35 as stated: while a worker is between the fetch and the end of the
\* commit of a message, the reader and the writer of its handler are open.
C35_ClosedOnlyBetweenIterations ==
  \A c \in Channels : InIteration(c) => (consumerOpen[c] /\ producerOpen[c])

\* C36 as stated: once ctx is cancelled no worker fetches a message, so no
\* iteration starts and nothing new is processed, saved, published or
\* committed.
C36_NoIterationAfterCancel ==
  [][ctxDone => \A c \in Channels : msg'[c] = msg[c] /\ pos'[c] = pos[c]]_vars

\* C37 as stated: the notification of a request answered 500 because its
\* Kafka write failed is not returned by GET /notifications/:id.
C37_CachedOnlyIfPublished ==
  \A r \in Requests :
    (req[r].status = 500 /\ req[r].writeErr = "err") =>
      LET got == getNotification(req[r].id) IN ~(got.status = 200 /\ got.body.req = r)

\* C38 as stated: every event of delivery-events whose offset is committed
\* by the analytics consumer has a document in the index.
C38_CommittedEventsIndexed ==
  \A i \in 1..Len(deliveryEvents) :
    i < anCommitted => \E doc \in esIndex : doc.offset = i

====
